---------------------------- MODULE Spec2Model ----------------------------
(***************************************************************************)
(* Model of the configuration resolution of par_cc_usage                   *)
(* (src/src/par_cc_usage/config.py).                                       *)
(*                                                                         *)
(* Conventions.                                                            *)
(*  - A string is a sequence of symbols; a symbol is a one-character       *)
(*    string, except "$S", "$U", ... which stand for the text of a         *)
(*    reference to the environment variable of that name.                  *)
(*  - A Python value that may be None, a dictionary entry that may be      *)
(*    missing and an environment variable that may be unset are sets of    *)
(*    at most one element: {} is None / missing / unset, {v} is v.         *)
(*  - A path (pathlib.Path) is the normalised sequence of symbols of its   *)
(*    text.                                                                *)
(***************************************************************************)
EXTENDS Integers, Sequences, FiniteSets, TLC

VARIABLES
    env,        \* os.environ: variable name -> {} or {string}
    fs,         \* configuration files: location -> document
    dirs,       \* the paths that exist as directories
    files,      \* the paths that exist as regular files
    symlinks,   \* symbolic links: path -> the path it points to
    given_file, \* the configuration file the caller names: {} or {location}
    op,         \* the operation that ran last, with its arguments
    cfg,        \* the outcome of the last load_config
    valid_paths,\* what the last get_claude_paths returned
    value,      \* the string handed to a coercion function
    parsed,     \* what the coercion function returned
    last_loaded,\* the object load_config built last: as built, and as it is now
    read_doc    \* what another process read last at the configuration file

vars == <<env, fs, dirs, files, symlinks, given_file, op, cfg,
         valid_paths, value, parsed, last_loaded, read_doc>>

None == {}
Some(x) == {x}
Get(o) == CHOOSE x \in o : TRUE

(***************************************************************************)
(* Strings                                                                 *)
(***************************************************************************)
Upper == [c \in {"t", "r", "u", "e", "y", "s", "o", "n"} |->
            CASE c = "t" -> "T" [] c = "r" -> "R" [] c = "u" -> "U"
              [] c = "e" -> "E" [] c = "y" -> "Y" [] c = "s" -> "S"
              [] c = "o" -> "O" [] c = "n" -> "N"]

\* str.lower() on one symbol
LowerSym(c) ==
    IF \E l \in DOMAIN Upper : Upper[l] = c
    THEN CHOOSE l \in DOMAIN Upper : Upper[l] = c
    ELSE c

\* str.lower()
Lower(s) == [i \in DOMAIN s |-> LowerSym(s[i])]

IsSpace(c) == c = " "

RECURSIVE LStrip(_)
LStrip(s) == IF s # <<>> /\ IsSpace(Head(s)) THEN LStrip(Tail(s)) ELSE s

RECURSIVE RStrip(_)
RStrip(s) ==
    IF s # <<>> /\ IsSpace(s[Len(s)]) THEN RStrip(SubSeq(s, 1, Len(s) - 1)) ELSE s

\* str.strip()
Strip(s) == RStrip(LStrip(s))

\* str.split(","): the segments between the commas, empty ones included
RECURSIVE SplitAcc(_, _)
SplitAcc(s, cur) ==
    IF s = <<>> THEN <<cur>>
    ELSE IF Head(s) = "," THEN <<cur>> \o SplitAcc(Tail(s), <<>>)
    ELSE SplitAcc(Tail(s), Append(cur, Head(s)))

Split(s) == SplitAcc(s, <<>>)

RECURSIVE SelectNonEmpty(_)
SelectNonEmpty(segs) ==
    IF segs = <<>> THEN <<>>
    ELSE IF Head(segs) # <<>> THEN <<Head(segs)>> \o SelectNonEmpty(Tail(segs))
    ELSE SelectNonEmpty(Tail(segs))

\* [x.strip() for x in value.split(",") if x.strip()]
StrippedSegments(s) ==
    LET segs == Split(s) IN
    SelectNonEmpty([i \in DOMAIN segs |-> Strip(segs[i])])

\* all strings of at most n symbols over alphabet a
RECURSIVE Strings(_, _)
Strings(a, n) ==
    IF n = 0 THEN {<<>>}
    ELSE LET shorter == Strings(a, n - 1) IN
         shorter \cup {Append(s, c) : s \in shorter, c \in a}

(***************************************************************************)
(* Field-type coercion                                                     *)
(***************************************************************************)
Digits == {"0", "1", "2", "3", "4", "5", "6", "7", "8", "9"}

DigitValue(c) ==
    CASE c = "0" -> 0 [] c = "1" -> 1 [] c = "2" -> 2 [] c = "3" -> 3
      [] c = "4" -> 4 [] c = "5" -> 5 [] c = "6" -> 6 [] c = "7" -> 7
      [] c = "8" -> 8 [] c = "9" -> 9

\* the digits of an integer literal: digits with single underscores between
IsDigitString(s) ==
    /\ s # <<>>
    /\ \A i \in DOMAIN s : s[i] \in Digits \cup {"_"}
    /\ s[1] # "_" /\ s[Len(s)] # "_"
    /\ \A i \in 1..(Len(s) - 1) : ~(s[i] = "_" /\ s[i + 1] = "_")

RECURSIVE DigitsValue(_, _)
DigitsValue(s, acc) ==
    IF s = <<>> THEN acc
    ELSE IF Head(s) = "_" THEN DigitsValue(Tail(s), acc)
    ELSE DigitsValue(Tail(s), 10 * acc + DigitValue(Head(s)))

\* int(value): surrounding whitespace, an optional sign, the digits
_parse_int_value(v) ==
    LET t == Strip(v)
        signed == t # <<>> /\ Head(t) \in {"+", "-"}
        body == IF signed THEN Tail(t) ELSE t
    IN  IF IsDigitString(body)
        THEN Some(IF signed /\ Head(t) = "-"
                  THEN 0 - DigitsValue(body, 0) ELSE DigitsValue(body, 0))
        ELSE None

TruthyTokens == {<<"t", "r", "u", "e">>, <<"1">>, <<"y", "e", "s">>, <<"o", "n">>}

ParseBoolCaseSensitive(v) == v \in TruthyTokens

\* value.lower() in ("true", "1", "yes", "on")
_parse_bool_value(v) == Lower(v) \in TruthyTokens

TimeFormatValues == {<<"12h">>, <<"24h">>}
DisplayModeValues == {<<"normal">>, <<"compact">>}
ThemeTypeValues ==
    {<<"default">>, <<"dark">>, <<"light">>, <<"accessibility">>, <<"minimal">>}

_parse_time_format_value(v) == IF v \in TimeFormatValues THEN Some(v) ELSE None

_parse_display_mode_value(v) == IF v \in DisplayModeValues THEN Some(v) ELSE None

_parse_prefix_list_value(v) == StrippedSegments(v)

(***************************************************************************)
(* Paths                                                                   *)
(***************************************************************************)
Home == <<"/", "home">>

\* the environment variable a reference symbol names
RefName(c) ==
    CASE c = "$S" -> "S" [] c = "$U" -> "U" [] OTHER -> "-"

IsRef(c) == RefName(c) # "-"

\* os.path.expanduser: a leading "~" alone or before "/" becomes the home
expanduser(s) ==
    IF s # <<>> /\ s[1] = "~" /\ (Len(s) = 1 \/ s[2] = "/")
    THEN Home \o Tail(s) ELSE s

\* os.path.expandvars: each reference to a variable that is set is replaced
\* by the variable's value, in one pass; the others stay as they are
RECURSIVE expandvars(_, _)
expandvars(e, s) ==
    IF s = <<>> THEN <<>>
    ELSE IF IsRef(Head(s)) /\ e[RefName(Head(s))] # None
         THEN Get(e[RefName(Head(s))]) \o expandvars(e, Tail(s))
         ELSE <<Head(s)>> \o expandvars(e, Tail(s))

\* pathlib.Path(text): repeated separators collapse, a trailing one is dropped
RECURSIVE Collapse(_)
Collapse(s) ==
    IF Len(s) < 2 THEN s
    ELSE IF s[1] = "/" /\ s[2] = "/" THEN Collapse(Tail(s))
    ELSE <<Head(s)>> \o Collapse(Tail(s))

PathOf(s) ==
    LET c == Collapse(s) IN
    IF c = <<>> THEN <<".">>
    ELSE IF Len(c) > 1 /\ c[Len(c)] = "/" THEN SubSeq(c, 1, Len(c) - 1)
    ELSE c

\* utils.expand_path
expand_path(e, s) == PathOf(expandvars(e, expanduser(s)))

\* xdg_dirs.get_cache_dir
get_cache_dir == Home \o <<"/", ".cache", "/", "par_cc_usage">>

(***************************************************************************)
(* Schema                                                                  *)
(***************************************************************************)
TopLevelKeys ==
    {"projects_dir", "projects_dirs", "polling_interval", "timezone",
     "token_limit", "cache_dir", "disable_cache",
     "recent_activity_window_hours"}

DisplayKeys ==
    {"show_progress_bars", "show_active_sessions", "update_in_place",
     "refresh_interval", "time_format", "project_name_prefixes",
     "aggregate_by_project", "show_tool_usage", "display_mode",
     "show_pricing", "theme"}

NotificationKeys ==
    {"discord_webhook_url", "slack_webhook_url",
     "notify_on_block_completion", "cooldown_minutes"}

Keys == TopLevelKeys \cup DisplayKeys \cup NotificationKeys

\* the keys whose value may be None in a validated object
OptionalKeys ==
    {"projects_dirs", "token_limit", "discord_webhook_url", "slack_webhook_url"}

PathKeys == {"projects_dir", "cache_dir"}

\* the field defaults of Config, DisplayConfig and NotificationConfig
Defaults ==
    [k \in Keys |->
        CASE k = "projects_dir" -> Some(Home \o <<"/", ".claude", "/", "projects">>)
          [] k = "projects_dirs" -> None
          [] k = "polling_interval" -> Some(5)
          [] k = "timezone" -> Some(<<"America/Los_Angeles">>)
          [] k = "token_limit" -> None
          [] k = "cache_dir" -> Some(get_cache_dir)
          [] k = "disable_cache" -> Some(FALSE)
          [] k = "recent_activity_window_hours" -> Some(5)
          [] k = "show_progress_bars" -> Some(TRUE)
          [] k = "show_active_sessions" -> Some(FALSE)
          [] k = "update_in_place" -> Some(TRUE)
          [] k = "refresh_interval" -> Some(1)
          [] k = "time_format" -> Some(<<"24h">>)
          [] k = "project_name_prefixes" -> Some(<< <<"-Users-">>, <<"-home-">> >>)
          [] k = "aggregate_by_project" -> Some(TRUE)
          [] k = "show_tool_usage" -> Some(FALSE)
          [] k = "display_mode" -> Some(<<"normal">>)
          [] k = "show_pricing" -> Some(FALSE)
          [] k = "theme" -> Some(<<"default">>)
          [] k = "discord_webhook_url" -> None
          [] k = "slack_webhook_url" -> None
          [] k = "notify_on_block_completion" -> Some(TRUE)
          [] k = "cooldown_minutes" -> Some(5)]

\* a dictionary is a function on the keys it holds; a key whose value is None
\* is left out of it (Config gives such a key its default, which is None
\* for each key that admits None)
EmptyMap == <<>>

\* dict.get(key): {} when the key is missing
Lookup(m, k) == IF k \in DOMAIN m THEN Some(m[k]) ELSE None

\* pydantic's validation of one value: the closed sets of the enum fields
ValidValue(k, v) ==
    CASE k = "time_format" -> v \in TimeFormatValues
      [] k = "display_mode" -> v \in DisplayModeValues
      [] k = "theme" -> v \in ThemeTypeValues
      [] OTHER -> TRUE

\* pydantic's conversion of one value: texts of paths become paths
Converted(k, v) ==
    CASE k \in PathKeys -> PathOf(v)
      [] k = "projects_dirs" -> [i \in DOMAIN v |-> PathOf(v[i])]
      [] OTHER -> v

\* Config(**config_dict): the object, or the validation error
Config(m) ==
    IF \E k \in DOMAIN m : ~ValidValue(k, m[k])
    THEN [status |-> "raised", exc |-> "ValidationError", c |-> Defaults]
    ELSE [status |-> "ok", exc |-> "",
          c |-> [k \in Keys |->
                   IF k \in DOMAIN m THEN Some(Converted(k, m[k]))
                   ELSE Defaults[k]]]

(***************************************************************************)
(* Environment overrides                                                   *)
(***************************************************************************)
IntKeys ==
    {"polling_interval", "token_limit", "refresh_interval", "cooldown_minutes",
     "recent_activity_window_hours"}

BoolKeys ==
    {"disable_cache", "notify_on_block_completion", "show_progress_bars",
     "show_active_sessions", "update_in_place", "aggregate_by_project",
     "show_tool_usage", "show_pricing"}

_parse_env_value(e, v, config_key) ==
    CASE config_key \in IntKeys -> _parse_int_value(v)
      [] config_key \in PathKeys -> Some(expand_path(e, v))
      [] config_key \in BoolKeys -> Some(_parse_bool_value(v))
      [] config_key = "time_format" -> _parse_time_format_value(v)
      [] config_key = "display_mode" -> _parse_display_mode_value(v)
      [] config_key = "project_name_prefixes" -> Some(_parse_prefix_list_value(v))
      [] OTHER -> Some(v)

_get_top_level_env_mapping ==
    [v \in {"PAR_CC_USAGE_PROJECTS_DIR", "PAR_CC_USAGE_POLLING_INTERVAL",
            "PAR_CC_USAGE_TIMEZONE", "PAR_CC_USAGE_TOKEN_LIMIT",
            "PAR_CC_USAGE_CACHE_DIR", "PAR_CC_USAGE_DISABLE_CACHE",
            "PAR_CC_USAGE_RECENT_ACTIVITY_WINDOW_HOURS"} |->
        CASE v = "PAR_CC_USAGE_PROJECTS_DIR" -> "projects_dir"
          [] v = "PAR_CC_USAGE_POLLING_INTERVAL" -> "polling_interval"
          [] v = "PAR_CC_USAGE_TIMEZONE" -> "timezone"
          [] v = "PAR_CC_USAGE_TOKEN_LIMIT" -> "token_limit"
          [] v = "PAR_CC_USAGE_CACHE_DIR" -> "cache_dir"
          [] v = "PAR_CC_USAGE_DISABLE_CACHE" -> "disable_cache"
          [] v = "PAR_CC_USAGE_RECENT_ACTIVITY_WINDOW_HOURS" ->
                "recent_activity_window_hours"]

_get_display_env_mapping ==
    [v \in {"PAR_CC_USAGE_SHOW_PROGRESS_BARS", "PAR_CC_USAGE_SHOW_ACTIVE_SESSIONS",
            "PAR_CC_USAGE_UPDATE_IN_PLACE", "PAR_CC_USAGE_REFRESH_INTERVAL",
            "PAR_CC_USAGE_TIME_FORMAT", "PAR_CC_USAGE_PROJECT_NAME_PREFIXES",
            "PAR_CC_USAGE_SHOW_TOOL_USAGE", "PAR_CC_USAGE_DISPLAY_MODE",
            "PAR_CC_USAGE_SHOW_PRICING", "PAR_CC_USAGE_THEME"} |->
        CASE v = "PAR_CC_USAGE_SHOW_PROGRESS_BARS" -> "show_progress_bars"
          [] v = "PAR_CC_USAGE_SHOW_ACTIVE_SESSIONS" -> "show_active_sessions"
          [] v = "PAR_CC_USAGE_UPDATE_IN_PLACE" -> "update_in_place"
          [] v = "PAR_CC_USAGE_REFRESH_INTERVAL" -> "refresh_interval"
          [] v = "PAR_CC_USAGE_TIME_FORMAT" -> "time_format"
          [] v = "PAR_CC_USAGE_PROJECT_NAME_PREFIXES" -> "project_name_prefixes"
          [] v = "PAR_CC_USAGE_SHOW_TOOL_USAGE" -> "show_tool_usage"
          [] v = "PAR_CC_USAGE_DISPLAY_MODE" -> "display_mode"
          [] v = "PAR_CC_USAGE_SHOW_PRICING" -> "show_pricing"
          [] v = "PAR_CC_USAGE_THEME" -> "theme"]

_get_notification_env_mapping ==
    [v \in {"PAR_CC_USAGE_DISCORD_WEBHOOK_URL", "PAR_CC_USAGE_SLACK_WEBHOOK_URL",
            "PAR_CC_USAGE_NOTIFY_ON_BLOCK_COMPLETION",
            "PAR_CC_USAGE_COOLDOWN_MINUTES"} |->
        CASE v = "PAR_CC_USAGE_DISCORD_WEBHOOK_URL" -> "discord_webhook_url"
          [] v = "PAR_CC_USAGE_SLACK_WEBHOOK_URL" -> "slack_webhook_url"
          [] v = "PAR_CC_USAGE_NOTIFY_ON_BLOCK_COMPLETION" ->
                "notify_on_block_completion"
          [] v = "PAR_CC_USAGE_COOLDOWN_MINUTES" -> "cooldown_minutes"]

\* the variables of the three tables, and the key each is mapped to
OverrideVars ==
    DOMAIN _get_top_level_env_mapping \cup DOMAIN _get_display_env_mapping
        \cup DOMAIN _get_notification_env_mapping

MappedKey(v) ==
    IF v \in DOMAIN _get_top_level_env_mapping THEN _get_top_level_env_mapping[v]
    ELSE IF v \in DOMAIN _get_display_env_mapping THEN _get_display_env_mapping[v]
    ELSE _get_notification_env_mapping[v]

\* the variables a path text may refer to
PathVars == {"S", "U"}

EnvVars == OverrideVars \cup {"CLAUDE_CONFIG_DIR"} \cup PathVars

\* os.getenv(name) is truthy: the variable is set to a non-empty string
IsSet(e, name) == e[name] # None /\ Get(e[name]) # <<>>

\* one pass of the loop of _apply_env_overrides: the value of config_key
\* after the variable env_var was looked at
OverrideDropsAll(e, prior, env_var, config_key) == prior

OverrideKeepsAbsent(e, prior, env_var, config_key) ==
    IF IsSet(e, env_var)
    THEN _parse_env_value(e, Get(e[env_var]), config_key)
    ELSE prior

Override(e, prior, env_var, config_key) ==
    IF IsSet(e, env_var)
    THEN LET parsed_value == _parse_env_value(e, Get(e[env_var]), config_key) IN
         IF parsed_value # None THEN parsed_value ELSE prior
    ELSE prior

\* the dictionary after the loop: each mapped key holds what its pass left
Overridden(config_dict, env_mapping, e) ==
    LET after == [v \in DOMAIN env_mapping |->
                    Override(e, Lookup(config_dict, env_mapping[v]), v,
                             env_mapping[v])]
        mapped == {env_mapping[v] : v \in DOMAIN env_mapping}
        VarFor(k) == CHOOSE v \in DOMAIN env_mapping : env_mapping[v] = k
    IN  [k \in (DOMAIN config_dict \ mapped)
                \cup {x \in mapped : after[VarFor(x)] # None} |->
            IF k \in mapped THEN Get(after[VarFor(k)]) ELSE config_dict[k]]

_apply_env_overrides(config_dict, env_mapping, e) ==
    Overridden(config_dict, env_mapping, e)

\* the section's dictionary is made when the file has none; the keys of the
\* two sections are kept beside the top-level ones
_apply_nested_env_overrides(config_dict, section_name, env_mapping, e) ==
    Overridden(config_dict, env_mapping, e)

\* [Path(p.strip()) for p in claude_dirs.split(",") if p.strip()]
ClaudeDirs(claude_dirs) ==
    LET segs == StrippedSegments(claude_dirs) IN
    [i \in DOMAIN segs |-> PathOf(segs[i])]

SetKey(m, k, v) == [x \in DOMAIN m \cup {k} |-> IF x = k THEN v ELSE m[x]]

ClaudeDirsOnlyWhenMissing(config_dict, e) ==
    IF IsSet(e, "CLAUDE_CONFIG_DIR") /\ "projects_dirs" \notin DOMAIN config_dict
    THEN SetKey(config_dict, "projects_dirs", ClaudeDirs(Get(e["CLAUDE_CONFIG_DIR"])))
    ELSE config_dict

_apply_claude_config_dir_override(config_dict, e) ==
    IF IsSet(e, "CLAUDE_CONFIG_DIR")
    THEN SetKey(config_dict, "projects_dirs", ClaudeDirs(Get(e["CLAUDE_CONFIG_DIR"])))
    ELSE config_dict

(***************************************************************************)
(* The configuration file                                                  *)
(***************************************************************************)
\* xdg_dirs.get_config_file_path: the canonical location
get_config_file_path == "xdg"

\* xdg_dirs.get_legacy_config_paths: the legacy locations, by priority
get_legacy_config_paths == <<"legacy1", "legacy2">>

Locations == {"xdg", "legacy1", "legacy2", "p"}

(* A document is what one location holds:                                  *)
(*   absent      no file                                                   *)
(*   map         a YAML mapping, m                                         *)
(*   empty       an empty YAML document (safe_load gives None)             *)
(*   malformed   not YAML (yaml.YAMLError)                                 *)
(*   undecodable not UTF-8 (UnicodeDecodeError)                            *)
(*   scalar      a YAML number, such as 42                                 *)
(*   sequence    a YAML list, such as "- a"                                *)
(*   unreadable  open() raises PermissionError                             *)
(*   noaccess    exists() raises PermissionError                           *)
(*   gone        exists() answers True, the file is removed before open()  *)
DocKinds ==
    {"absent", "map", "empty", "malformed", "undecodable", "scalar",
     "sequence", "unreadable", "noaccess", "gone"}

Doc(kind, m) == [kind |-> kind, m |-> m]

Absent == Doc("absent", EmptyMap)

\* Path.exists() raises
ExistsRaises(f, loc) == f[loc].kind = "noaccess"

\* Path.exists(), when it does not raise
Exists(f, loc) == f[loc].kind # "absent"

\* xdg_dirs.migrate_legacy_config: copies an existing legacy file to the
\* canonical location unless that one exists; tells whether it copied
migrate_legacy_config(f, legacy_path) ==
    IF Exists(f, legacy_path) /\ ~ExistsRaises(f, get_config_file_path)
         /\ ~Exists(f, get_config_file_path)
    THEN [migrated |-> TRUE, from |-> Some(legacy_path),
          fs |-> [f EXCEPT ![get_config_file_path] = f[legacy_path]]]
    ELSE [migrated |-> FALSE, from |-> None, fs |-> f]

\* the loop over the legacy locations: stops at the first that migrates
RECURSIVE MigrateLastLegacy(_, _)
MigrateLastLegacy(f, legacy_paths) ==
    IF legacy_paths = <<>> THEN [migrated |-> FALSE, from |-> None, fs |-> f]
    ELSE LET r == migrate_legacy_config(f, legacy_paths[Len(legacy_paths)]) IN
         IF r.migrated THEN r
         ELSE MigrateLastLegacy(f, SubSeq(legacy_paths, 1, Len(legacy_paths) - 1))

RECURSIVE MigrateFirstLegacy(_, _)
MigrateFirstLegacy(f, legacy_paths) ==
    IF legacy_paths = <<>> THEN [migrated |-> FALSE, from |-> None, fs |-> f]
    ELSE LET r == migrate_legacy_config(f, Head(legacy_paths)) IN
         IF r.migrated THEN r ELSE MigrateFirstLegacy(f, Tail(legacy_paths))

\* _expand_paths_in_config on a mapping
_expand_paths_in_config(config_dict, e) ==
    [k \in DOMAIN config_dict |->
        IF k \in PathKeys THEN expand_path(e, config_dict[k])
        ELSE config_dict[k]]

Loaded(status, exc, mapping, m, f, from) ==
    [status |-> status, exc |-> exc, mapping |-> mapping, m |-> m, fs |-> f,
     from |-> from]

\* _load_config_file: what it returns or raises, and the files it leaves
_load_config_file(file_arg, f, e) ==
    LET config_file0 == IF file_arg = None THEN get_config_file_path
                        ELSE Get(file_arg)
        config_exists == IF ExistsRaises(f, config_file0) THEN TRUE
                         ELSE Exists(f, config_file0)
        mig == IF ~config_exists
               THEN MigrateFirstLegacy(f, get_legacy_config_paths)
               ELSE [migrated |-> FALSE, from |-> None, fs |-> f]
        config_file == IF mig.migrated THEN get_config_file_path ELSE config_file0
        f1 == mig.fs
        kind == f1[config_file].kind
        \* a file removed between exists() and open() is not there afterwards
        f2 == IF kind = "gone" THEN [f1 EXCEPT ![config_file] = Absent] ELSE f1
    IN  CASE kind \in {"absent", "noaccess", "gone", "unreadable", "malformed",
                       "undecodable", "empty"} ->
                Loaded("ok", "", TRUE, EmptyMap, f2, mig.from)
          [] kind = "map" ->
                Loaded("ok", "", TRUE,
                       _expand_paths_in_config(f1[config_file].m, e), f2, mig.from)
          \* "projects_dir" in 42 raises TypeError, which no handler catches
          [] kind = "scalar" ->
                Loaded("raised", "TypeError", FALSE, EmptyMap, f2, mig.from)
          \* "projects_dir" in ["a"] is False: the list itself is returned
          [] kind = "sequence" ->
                Loaded("ok", "", FALSE, EmptyMap, f2, mig.from)

(***************************************************************************)
(* load_config and save_config                                             *)
(***************************************************************************)
\* load_config: the outcome (the object, or the exception that leaves it)
\* and the files it leaves
load_config(file_arg, f, e) ==
    LET r == _load_config_file(file_arg, f, e)
        m1 == _apply_claude_config_dir_override(r.m, e)
        m2 == _apply_env_overrides(m1, _get_top_level_env_mapping, e)
        m3 == _apply_nested_env_overrides(m2, "display",
                                          _get_display_env_mapping, e)
        m4 == _apply_nested_env_overrides(m3, "notifications",
                                          _get_notification_env_mapping, e)
        made == Config(m4)
    IN  IF r.status = "raised"
        THEN [status |-> "raised", exc |-> r.exc, c |-> Defaults, fs |-> r.fs,
              from |-> r.from]
        \* a list takes no key (TypeError at the first assignment) and has
        \* no get() (AttributeError in _apply_nested_env_overrides)
        ELSE IF ~r.mapping
        THEN [status |-> "raised",
              exc |-> IF \/ IsSet(e, "CLAUDE_CONFIG_DIR")
                         \/ \E v \in DOMAIN _get_top_level_env_mapping :
                              Override(e, None, v, _get_top_level_env_mapping[v]) # None
                      THEN "TypeError" ELSE "AttributeError",
              c |-> Defaults, fs |-> r.fs, from |-> r.from]
        ELSE [status |-> made.status, exc |-> made.exc, c |-> made.c,
              fs |-> r.fs, from |-> r.from]

\* the keys save_config writes
SerializedKeys ==
    {"projects_dir", "polling_interval", "timezone", "token_limit", "cache_dir",
     "show_progress_bars", "show_active_sessions", "update_in_place",
     "refresh_interval", "time_format", "project_name_prefixes", "display_mode",
     "show_pricing", "discord_webhook_url", "slack_webhook_url",
     "notify_on_block_completion", "cooldown_minutes"}

\* if config.projects_dirs: the list is set and not empty
Truthy(list) == list # None /\ Get(list) # <<>>

\* the mapping save_config dumps
Serialized(c) ==
    [k \in {x \in SerializedKeys : c[x] # None}
            \cup {x \in {"projects_dirs"} : Truthy(c[x])} |-> Get(c[k])]

\* the directory of a configuration file
ParentDir(loc) ==
    CASE loc = "xdg" -> Home \o <<"/", ".config", "/", "par_cc_usage">>
      [] loc = "legacy1" -> <<"/", "cwd">>
      [] loc = "legacy2" -> Home \o <<"/", ".par_cc_usage">>
      [] OTHER -> <<"/", "tmp">>

\* xdg_dirs.ensure_xdg_directories: the directories it makes
ensure_xdg_directories == {ParentDir(get_config_file_path), get_cache_dir}

(***************************************************************************)
(* Operations                                                              *)
(***************************************************************************)
NoConfig == [status |-> "none", exc |-> "", c |-> Defaults]

\* op: the last operation, the one before it, the files and the object the
\* caller held when it started, and the legacy location it migrated
Op(name, prev, f, c, from) ==
    [name |-> name, prev |-> prev, fs0 |-> f, c0 |-> c, from |-> from]

\* the file main() loads and saves: the one named, else the canonical one
TargetFile == IF given_file = None THEN get_config_file_path ELSE Get(given_file)

\* load_config(config_file); Config.model_post_init makes the cache directory
LoadConfig ==
    /\ op.name \in {"init", "unset", "save", "update"}
    /\ \E r \in {load_config(given_file, fs, env)} :
        /\ cfg' = [status |-> r.status, exc |-> r.exc, c |-> r.c]
        /\ fs' = r.fs
        /\ dirs' = IF r.status = "ok" THEN dirs \cup r.c["cache_dir"] ELSE dirs
        /\ op' = Op("load", op.name, fs, cfg.c, r.from)
        /\ last_loaded' = IF r.status = "ok"
                          THEN Some([made |-> r.c, now |-> r.c])
                          ELSE last_loaded
    /\ UNCHANGED <<env, files, symlinks, given_file, valid_paths, value, parsed,
                 read_doc>>

\* save_config(config, config_file) of the object loaded last
SaveConfig ==
    /\ op.name \in {"load", "unset"} /\ op.prev # "save"
    /\ cfg.status = "ok"
    /\ fs' = [fs EXCEPT ![TargetFile] = Doc("map", Serialized(cfg.c))]
    /\ dirs' = dirs \cup ensure_xdg_directories \cup {ParentDir(TargetFile)}
    /\ op' = Op("save", op.name, fs, cfg.c, None)
    /\ UNCHANGED <<env, files, symlinks, given_file, cfg, valid_paths, value, parsed,
                 last_loaded, read_doc>>

\* the caller's environment loses its override variables (a later run of
\* the program without them)
UnsetOverrides ==
    /\ op.name = "load" /\ op.prev = "init"
    /\ \E v \in OverrideVars \cup {"CLAUDE_CONFIG_DIR"} : env[v] # None
    /\ env' = [v \in EnvVars |-> IF v \in PathVars THEN env[v] ELSE None]
    /\ op' = Op("unset", op.name, fs, cfg.c, None)
    /\ UNCHANGED <<fs, dirs, files, symlinks, given_file, cfg, valid_paths, value, parsed,
                 last_loaded, read_doc>>

(***************************************************************************)
(* Inputs                                                                  *)
(***************************************************************************)
MaxEnvVars == 2

\* the strings tried for each variable
EnvChoices ==
    {<<"PAR_CC_USAGE_PROJECTS_DIR", <<"~", "/", "x">> >>,
     <<"PAR_CC_USAGE_PROJECTS_DIR", <<"$S", "/", "x">> >>,
     <<"PAR_CC_USAGE_POLLING_INTERVAL", <<"2", "0">> >>,
     <<"PAR_CC_USAGE_POLLING_INTERVAL", <<"a", "b", "c">> >>,
     <<"PAR_CC_USAGE_TIMEZONE", <<"UTC">> >>,
     <<"PAR_CC_USAGE_TOKEN_LIMIT", <<"9">> >>,
     <<"PAR_CC_USAGE_TOKEN_LIMIT", <<"1", ".", "5">> >>,
     <<"PAR_CC_USAGE_CACHE_DIR", <<"/", "c", "/">> >>,
     <<"PAR_CC_USAGE_DISABLE_CACHE", <<"Y", "E", "S">> >>,
     <<"PAR_CC_USAGE_DISABLE_CACHE", <<"m">> >>,
     <<"PAR_CC_USAGE_RECENT_ACTIVITY_WINDOW_HOURS", <<"8">> >>,
     <<"PAR_CC_USAGE_RECENT_ACTIVITY_WINDOW_HOURS", <<"x">> >>,
     <<"PAR_CC_USAGE_SHOW_PROGRESS_BARS", <<"0">> >>,
     <<"PAR_CC_USAGE_SHOW_ACTIVE_SESSIONS", <<"1">> >>,
     <<"PAR_CC_USAGE_UPDATE_IN_PLACE", <<"o", "f", "f">> >>,
     <<"PAR_CC_USAGE_REFRESH_INTERVAL", <<" ", "3">> >>,
     <<"PAR_CC_USAGE_REFRESH_INTERVAL", <<"3", "s">> >>,
     <<"PAR_CC_USAGE_TIME_FORMAT", <<"12h">> >>,
     <<"PAR_CC_USAGE_TIME_FORMAT", <<"12H">> >>,
     <<"PAR_CC_USAGE_PROJECT_NAME_PREFIXES", <<"a", ",", " ", "b", ",">> >>,
     <<"PAR_CC_USAGE_SHOW_TOOL_USAGE", <<"o", "n">> >>,
     <<"PAR_CC_USAGE_DISPLAY_MODE", <<"compact">> >>,
     <<"PAR_CC_USAGE_DISPLAY_MODE", <<"wide">> >>,
     <<"PAR_CC_USAGE_SHOW_PRICING", <<"T", "r", "u", "e">> >>,
     <<"PAR_CC_USAGE_THEME", <<"dark">> >>,
     <<"PAR_CC_USAGE_THEME", <<"purple">> >>,
     <<"PAR_CC_USAGE_DISCORD_WEBHOOK_URL", <<"https://d">> >>,
     <<"PAR_CC_USAGE_SLACK_WEBHOOK_URL", <<"https://s">> >>,
     <<"PAR_CC_USAGE_NOTIFY_ON_BLOCK_COMPLETION", <<"f">> >>,
     <<"PAR_CC_USAGE_COOLDOWN_MINUTES", <<"-", "7">> >>,
     <<"PAR_CC_USAGE_COOLDOWN_MINUTES", <<"-">> >>,
     <<"CLAUDE_CONFIG_DIR", <<"/", "a", ",", " ", "~", "/", "b", " ">> >>,
     <<"CLAUDE_CONFIG_DIR", <<",">> >>,
     <<"S", <<"sub">> >>,
     <<"U", <<"$S">> >>}

NoEnv == [v \in EnvVars |-> None]

\* the environments with at most n of the variables set
RECURSIVE Envs(_)
Envs(n) ==
    IF n = 0 THEN {NoEnv}
    ELSE LET fewer == Envs(n - 1) IN
         fewer \cup {[e EXCEPT ![ch[1]] = Some(ch[2])] : e \in fewer, ch \in EnvChoices}

Map(pairs) ==
    [k \in {pr[1] : pr \in pairs} |-> (CHOOSE pr \in pairs : pr[1] = k)[2]]

\* the mappings tried as the content of the configuration file
FileMaps ==
    {Map({<<"polling_interval", 10>>}),
     Map({<<"projects_dir", <<"~", "/", "p">> >>,
          <<"cache_dir", <<"/", "var", "/", "$S">> >>}),
     Map({<<"projects_dir", <<"$U", "/", "x">> >>}),
     Map({<<"projects_dir", <<"rel", "/", "x">> >>}),
     Map({<<"projects_dirs", << <<"/", "m">>, <<"~", "/", "n">> >> >>}),
     Map({<<"timezone", <<"Europe/Paris">> >>, <<"token_limit", 1000>>,
          <<"disable_cache", TRUE>>, <<"recent_activity_window_hours", 8>>,
          <<"refresh_interval", 2>>, <<"time_format", <<"12h">> >>,
          <<"aggregate_by_project", FALSE>>, <<"show_tool_usage", TRUE>>,
          <<"theme", <<"dark">> >>, <<"display_mode", <<"compact">> >>,
          <<"project_name_prefixes", << <<"-x-">> >> >>,
          <<"discord_webhook_url", <<"https://f">> >>,
          <<"notify_on_block_completion", FALSE>>, <<"cooldown_minutes", 9>>,
          <<"show_progress_bars", FALSE>>, <<"show_pricing", TRUE>>})}

NoFiles == [l \in Locations |-> Absent]

InitCommon ==
    /\ dirs = {}
    /\ files = {}
    /\ symlinks = <<>>
    /\ op = Op("init", "init", fs, Defaults, None)
    /\ cfg = NoConfig
    /\ valid_paths = <<>>
    /\ parsed = None
    /\ last_loaded = None
    /\ read_doc = None

\* a named configuration file: a mapping under every environment, or a file
\* that is not there or cannot be read as a mapping under the smaller ones
InitLoad ==
    /\ given_file = Some("p")
    /\ \/ /\ env \in Envs(MaxEnvVars)
          /\ \E m \in FileMaps : fs = [NoFiles EXCEPT !["p"] = Doc("map", m)]
       \/ /\ env \in Envs(MaxEnvVars - 1)
          /\ \E kind \in DocKinds \ {"map"} :
                fs = [NoFiles EXCEPT !["p"] = Doc(kind, EmptyMap)]
    /\ InitCommon
    /\ value = <<>>

NextLoad == LoadConfig \/ SaveConfig \/ UnsetOverrides

SpecLoad == InitLoad /\ [][NextLoad]_vars

(***************************************************************************)
(* Precedence of the three layers                                          *)
(***************************************************************************)
\* the mapping the file named to the last operation held when it started
FileLayer ==
    LET d == op.fs0[TargetFile] IN
    IF d.kind = "map" THEN d.m ELSE EmptyMap

\* the value the file layer gives a key, as the object holds it
FileValue(k) ==
    IF k \in DOMAIN FileLayer
    THEN Some(Converted(k, IF k \in PathKeys THEN expand_path(env, FileLayer[k])
                           ELSE FileLayer[k]))
    ELSE None

FileOrDefault(k) == IF FileValue(k) # None THEN FileValue(k) ELSE Defaults[k]

\* the variable that overrides a key, if any
VarOf(k) ==
    IF k = "projects_dirs" THEN {"CLAUDE_CONFIG_DIR"}
    ELSE {v \in OverrideVars : MappedKey(v) = k}

\* the coerced value of the variable that overrides a key: {} when the key
\* has no variable, the variable is unset or empty, or the coercion fails
EnvValue(k) ==
    IF VarOf(k) = {} \/ ~IsSet(env, Get(VarOf(k))) THEN None
    ELSE IF k = "projects_dirs" THEN Some(ClaudeDirs(Get(env[Get(VarOf(k))])))
    ELSE LET parsed_value == _parse_env_value(env, Get(env[Get(VarOf(k))]), k) IN
         IF parsed_value = None THEN None
         ELSE Some(Converted(k, Get(parsed_value)))

Returned == op.name = "load" /\ cfg.status = "ok"

\* C1: in the object load_config returns every field holds the coerced value
\* of its environment variable when that is set, non-empty and coerces;
\* otherwise the file's value when the file has the key; otherwise the
\* default. With no file and no variable set the object is the defaults; the
\* file's polling_interval 10 gives 10, and 20 under the override "20".
C1_Precedence ==
    Returned =>
        /\ \A k \in Keys :
            cfg.c[k] = IF EnvValue(k) # None THEN EnvValue(k) ELSE FileOrDefault(k)
        /\ (op.fs0[TargetFile] = Absent /\ \A v \in EnvVars : env[v] = None)
                => cfg.c = Defaults
        /\ (Lookup(FileLayer, "polling_interval") = Some(10)
                /\ env["PAR_CC_USAGE_POLLING_INTERVAL"] = None)
                => cfg.c["polling_interval"] = Some(10)
        /\ (Lookup(FileLayer, "polling_interval") = Some(10)
                /\ env["PAR_CC_USAGE_POLLING_INTERVAL"] = Some(<<"2", "0">>))
                => cfg.c["polling_interval"] = Some(20)

C1_Witness ==
    /\ Returned
    /\ Lookup(FileLayer, "polling_interval") = Some(10)
    /\ env["PAR_CC_USAGE_POLLING_INTERVAL"] = Some(<<"2", "0">>)
    /\ env["PAR_CC_USAGE_TIMEZONE"] = None
    /\ cfg.c["polling_interval"] = Some(20)
    /\ cfg.c["timezone"] = Defaults["timezone"]

(***************************************************************************)
(* Files that are not a mapping, and reads that fail                       *)
(***************************************************************************)
\* the documents that cannot be parsed into a mapping, and the failures of
\* checking or reading the file
UnparsableKinds == {"malformed", "undecodable", "scalar", "sequence"}

IOFailureKinds == {"unreadable", "noaccess", "gone"}

\* C2: when the file cannot be parsed into a mapping, or checking or reading
\* it fails, _load_config_file returns an empty mapping and does not raise,
\* and load_config returns a configuration (the defaults, when no variable
\* is set).
C2_FileFailuresAbsorbed ==
    (op.name = "load" /\ op.fs0[TargetFile].kind \in UnparsableKinds \cup IOFailureKinds)
        => LET r == _load_config_file(given_file, op.fs0, env) IN
           /\ r.status = "ok" /\ r.mapping /\ r.m = EmptyMap
           /\ (\A v \in EnvVars : env[v] = None) =>
                (cfg.status = "ok" /\ cfg.c = Defaults)

\* the part of C2 the code keeps: malformed or undecodable content and every
\* failure of checking or reading the file give the empty mapping
C2_Absorbed ==
    (op.name = "load"
        /\ op.fs0[TargetFile].kind \in {"malformed", "undecodable"} \cup IOFailureKinds)
        => LET r == _load_config_file(given_file, op.fs0, env) IN
           /\ r.status = "ok" /\ r.mapping /\ r.m = EmptyMap
           /\ (\A v \in EnvVars : env[v] = None) =>
                (cfg.status = "ok" /\ cfg.c = Defaults)

(***************************************************************************)
(* Overrides that do not coerce                                            *)
(***************************************************************************)
\* a string that is no value of the field a key names
InvalidFor(k, s) ==
    CASE k \in IntKeys -> _parse_int_value(s) = None
      [] k = "time_format" -> s \notin TimeFormatValues
      [] k = "display_mode" -> s \notin DisplayModeValues
      [] k = "theme" -> s \notin ThemeTypeValues
      [] OTHER -> FALSE

InvalidVars ==
    {v \in OverrideVars : IsSet(env, v) /\ InvalidFor(MappedKey(v), Get(env[v]))}

\* the file is a mapping, is not there, or is one of the contents and
\* failures load_config absorbs
FileLoads == op.fs0[TargetFile].kind \notin {"scalar", "sequence"}

\* C3: a variable of the three tables set to a string that is invalid for
\* its field does not make load_config fail: the field keeps its file or
\* default value and the other variables' overrides are applied.
C3_InvalidOverrideDropped ==
    (op.name = "load" /\ FileLoads /\ InvalidVars # {})
        => /\ cfg.status = "ok"
           /\ \A v \in InvalidVars : cfg.c[MappedKey(v)] = FileOrDefault(MappedKey(v))
           /\ \A v \in OverrideVars \ InvalidVars :
                IsSet(env, v) => cfg.c[MappedKey(v)] = EnvValue(MappedKey(v))

\* the part of C3 the code keeps: every variable but PAR_CC_USAGE_THEME
C3_InvalidOverrideDroppedButTheme ==
    (op.name = "load" /\ FileLoads /\ InvalidVars # {}
        /\ "PAR_CC_USAGE_THEME" \notin InvalidVars)
        => /\ cfg.status = "ok"
           /\ \A v \in InvalidVars : cfg.c[MappedKey(v)] = FileOrDefault(MappedKey(v))
           /\ \A v \in OverrideVars \ InvalidVars :
                IsSet(env, v) => cfg.c[MappedKey(v)] = EnvValue(MappedKey(v))

(***************************************************************************)
(* Integer overrides                                                       *)
(***************************************************************************)
MaxIntLen == 3

IntAlphabet == {"1", "2", "-", " ", "x", "_"}

IntVars == {v \in OverrideVars : MappedKey(v) \in IntKeys}

\* a file that supplies the five integer fields
IntFileMap ==
    Map({<<"polling_interval", 10>>, <<"token_limit", 1000>>,
         <<"refresh_interval", 2>>, <<"cooldown_minutes", 9>>,
         <<"recent_activity_window_hours", 8>>})

\* one integer variable set to any string, with and without a file value
InitIntOverride ==
    /\ given_file = Some("p")
    /\ \E v \in IntVars, s \in Strings(IntAlphabet, MaxIntLen) :
            env = [NoEnv EXCEPT ![v] = Some(s)]
    /\ fs \in {NoFiles, [NoFiles EXCEPT !["p"] = Doc("map", IntFileMap)]}
    /\ InitCommon
    /\ value = <<>>

SpecIntOverride == InitIntOverride /\ [][NextLoad]_vars

\* a non-numeric string: it has no digit, or a symbol that is no digit, sign,
\* blank or underscore
NonNumeric(s) ==
    \/ \A i \in DOMAIN s : s[i] \notin Digits
    \/ \E i \in DOMAIN s : s[i] \notin Digits \cup {"+", "-", " ", "_"}

\* C4: for each of the five integer fields and every non-numeric override
\* string, integer coercion returns absent and the returned object holds the
\* file's value when the file has the key, else the default.
C4_NonNumericIntOverride ==
    op.name = "load" =>
        \A v \in IntVars :
            (IsSet(env, v) /\ NonNumeric(Get(env[v]))) =>
                /\ _parse_int_value(Get(env[v])) = None
                /\ cfg.status = "ok"
                /\ cfg.c[MappedKey(v)] = FileOrDefault(MappedKey(v))
                /\ op.prev = "init" =>
                      cfg.c[MappedKey(v)] =
                          IF op.fs0["p"].kind = "map"
                          THEN Some(IntFileMap[MappedKey(v)])
                          ELSE Defaults[MappedKey(v)]

C4_Witness ==
    /\ op.name = "load" /\ op.prev = "init" /\ cfg.status = "ok"
    /\ op.fs0["p"].kind = "map"
    /\ env["PAR_CC_USAGE_COOLDOWN_MINUTES"] = Some(<<"1", "x">>)
    /\ cfg.c["cooldown_minutes"] = Some(9)

(***************************************************************************)
(* Boolean coercion                                                        *)
(***************************************************************************)
MaxStrLen == 4

BoolAlphabet == {"t", "T", "r", "u", "e", "1", "o", "n", "N", "y", "s"}

InitCoerce ==
    /\ given_file = None
    /\ env = NoEnv
    /\ fs = NoFiles
    /\ InitCommon
    /\ value \in Strings(BoolAlphabet, MaxStrLen)

\* _parse_bool_value(value)
ParseBoolValue ==
    /\ op.name = "init"
    /\ parsed' = Some(_parse_bool_value(value))
    /\ op' = Op("bool", op.name, fs, cfg.c, None)
    /\ UNCHANGED <<env, fs, dirs, files, symlinks, given_file, cfg, valid_paths, value,
                 last_loaded, read_doc>>

NextCoerce == ParseBoolValue

SpecCoerce == InitCoerce /\ [][NextCoerce]_vars

\* the string is one of the tokens, letter case apart
IsTruthyToken(s) ==
    \E t \in TruthyTokens :
        /\ Len(s) = Len(t)
        /\ \A i \in DOMAIN t :
              \/ s[i] = t[i]
              \/ t[i] \in DOMAIN Upper /\ s[i] = Upper[t[i]]

\* C5: boolean coercion returns a boolean for every string: true exactly
\* when the string is one of true, 1, yes, on compared case-insensitively,
\* false for every other string.
C5_BoolCoercionTotal ==
    op.name = "bool" =>
        /\ parsed \in {Some(TRUE), Some(FALSE)}
        /\ parsed = Some(TRUE) <=> IsTruthyToken(value)

C5_Witness ==
    op.name = "bool" /\ value = <<"T", "r", "u", "e">> /\ parsed = Some(TRUE)

(***************************************************************************)
(* The directory-list variable                                             *)
(***************************************************************************)
\* C7: when CLAUDE_CONFIG_DIR is set to a non-empty string, projects_dirs of
\* the returned object is exactly its comma-split, trimmed, non-empty
\* segments, whatever the file's projects_dirs and whether or not
\* PAR_CC_USAGE_PROJECTS_DIR is set; PAR_CC_USAGE_PROJECTS_DIR never changes
\* projects_dirs.
C7_ClaudeConfigDirWins ==
    Returned =>
        /\ IsSet(env, "CLAUDE_CONFIG_DIR") =>
             /\ cfg.c["projects_dirs"] = Some(ClaudeDirs(Get(env["CLAUDE_CONFIG_DIR"])))
             /\ env["CLAUDE_CONFIG_DIR"] = Some(<<"/", "a", ",", " ", "~", "/", "b", " ">>)
                    => cfg.c["projects_dirs"] = Some(<< <<"/", "a">>, <<"~", "/", "b">> >>)
             /\ env["CLAUDE_CONFIG_DIR"] = Some(<<",">>)
                    => cfg.c["projects_dirs"] = Some(<<>>)
        /\ ~IsSet(env, "CLAUDE_CONFIG_DIR") =>
             cfg.c["projects_dirs"] = FileOrDefault("projects_dirs")

C7_Witness ==
    /\ Returned
    /\ "projects_dirs" \in DOMAIN FileLayer
    /\ IsSet(env, "PAR_CC_USAGE_PROJECTS_DIR")
    /\ env["CLAUDE_CONFIG_DIR"] = Some(<<"/", "a", ",", " ", "~", "/", "b", " ">>)
    /\ cfg.c["projects_dirs"] = Some(<< <<"/", "a">>, <<"~", "/", "b">> >>)

(***************************************************************************)
(* Path-valued fields                                                      *)
(***************************************************************************)
IsAbsolute(path) == path # <<>> /\ path[1] = "/"

HasHomeAlias(path) == \E i \in DOMAIN path : path[i] = "~"

HasVarReference(path) == \E i \in DOMAIN path : IsRef(path[i])

CleanPath(path) ==
    IsAbsolute(path) /\ ~HasHomeAlias(path) /\ ~HasVarReference(path)

\* the paths an object holds
PathsOf(c) ==
    c["projects_dir"] \cup c["cache_dir"]
        \cup (IF c["projects_dirs"] = None THEN {}
              ELSE {Get(c["projects_dirs"])[i] : i \in DOMAIN Get(c["projects_dirs"])})

\* C9: in every object load_config returns, projects_dir, every entry of
\* projects_dirs and cache_dir are absolute and hold no home alias and no
\* reference to an environment variable.
C9_PathsAbsoluteAndExpanded ==
    Returned => \A path \in PathsOf(cfg.c) : CleanPath(path)

\* the same for the entries of projects_dirs alone, which no expansion touches
C9_ProjectsDirsExpanded ==
    (Returned /\ cfg.c["projects_dirs"] # None) =>
        \A i \in DOMAIN Get(cfg.c["projects_dirs"]) :
            ~HasHomeAlias(Get(cfg.c["projects_dirs"])[i])

(***************************************************************************)
(* Saving and loading again                                                *)
(***************************************************************************)
NoOverrideSet == \A v \in OverrideVars \cup {"CLAUDE_CONFIG_DIR"} : env[v] = None

\* a load of the file that was just saved, with no override variable set
RoundTrip == op.name = "load" /\ op.prev = "save" /\ NoOverrideSet

\* the fields save_config writes for an object
SavedFields(c) ==
    SerializedKeys \cup (IF Truthy(c["projects_dirs"]) THEN {"projects_dirs"} ELSE {})

\* C10: save_config(c, p) followed by load_config(p), with no override
\* variable set, gives an object equal to c on every field save_config
\* writes.
C10_SaveLoadRoundTrip ==
    RoundTrip =>
        /\ cfg.status = "ok"
        /\ \A k \in SavedFields(op.c0) : cfg.c[k] = op.c0[k]

\* the same for the fields that are not expanded when loaded
C10_RoundTripButExpandedPaths ==
    RoundTrip =>
        /\ cfg.status = "ok"
        /\ \A k \in SavedFields(op.c0) \ PathKeys : cfg.c[k] = op.c0[k]

(***************************************************************************)
(* Migration of a legacy configuration file                                *)
(***************************************************************************)
LegacyMap1 == Map({<<"polling_interval", 10>>})

LegacyMap2 == Map({<<"projects_dir", <<"rel", "/", "x">> >>})

CanonicalMap == Map({<<"timezone", <<"Europe/Paris">> >>})

NamedMap == Map({<<"token_limit", 1000>>})

\* the canonical file named or not, each of the four files there or not, and
\* a canonical location whose existence cannot be checked
InitMigrate ==
    /\ given_file \in {None, Some("p")}
    /\ env \in Envs(MaxEnvVars - 1)
    /\ \E x \in {Absent, Doc("map", CanonicalMap), Doc("noaccess", EmptyMap)},
          l1 \in {Absent, Doc("map", LegacyMap1)},
          l2 \in {Absent, Doc("map", LegacyMap2)},
          n \in {Absent, Doc("map", NamedMap)} :
            fs = [NoFiles EXCEPT !["xdg"] = x, !["legacy1"] = l1,
                                 !["legacy2"] = l2, !["p"] = n]
    /\ InitCommon
    /\ value = <<>>

SpecMigrate == InitMigrate /\ [][NextLoad]_vars

\* the legacy locations that held a file when the last operation started
LegacyPresent ==
    {i \in DOMAIN get_legacy_config_paths :
        Exists(op.fs0, get_legacy_config_paths[i])}

\* the last load copied a file to the canonical location
Migrated == op.name = "load" /\ fs[get_config_file_path] # op.fs0[get_config_file_path]

\* C6: one load_config copies at most one legacy file to the canonical
\* location, and only when the canonical file did not exist when the load
\* started; of several legacy files it copies the first in priority order;
\* afterwards the canonical file holds that file's content and every legacy
\* file is still there, unchanged.
C6_MigrationOnceAndPreserving ==
    op.name = "load" =>
        /\ \A l \in Locations \ {get_config_file_path} : fs[l] = op.fs0[l]
        /\ Migrated <=> op.from # None
        /\ Migrated =>
            /\ op.fs0[get_config_file_path] = Absent
            /\ LegacyPresent # {}
            /\ \E i \in LegacyPresent :
                /\ \A j \in LegacyPresent : i <= j
                /\ op.from = Some(get_legacy_config_paths[i])
                /\ fs[get_config_file_path] = op.fs0[get_legacy_config_paths[i]]
                /\ fs[get_legacy_config_paths[i]] = op.fs0[get_legacy_config_paths[i]]

\* two legacy files and no canonical file: the first was copied
C6_Witness ==
    /\ Migrated
    /\ Cardinality(LegacyPresent) = 2
    /\ fs[get_config_file_path] = Doc("map", LegacyMap1)
    /\ fs["legacy1"] = Doc("map", LegacyMap1)
    /\ fs["legacy2"] = Doc("map", LegacyMap2)

(***************************************************************************)
(* Config.get_claude_paths                                                 *)
(***************************************************************************)
\* the working directory relative paths are resolved against
Cwd == <<"/">>

\* Path.resolve(): the path made absolute, a symbolic link followed
resolve(sl, path) ==
    LET abs == IF IsAbsolute(path) THEN path ELSE Cwd \o path IN
    IF abs \in DOMAIN sl THEN sl[abs] ELSE abs

\* Path.exists(): what the path leads to is a directory or a file
exists(d, fl, sl, path) == resolve(sl, path) \in d \cup fl

\* Path.is_dir()
is_dir(d, sl, path) == resolve(sl, path) \in d

\* the OS-default directories, in the order they are tried
default_paths ==
    << Home \o <<"/", ".config", "/", "claude", "/", "projects">>,
       Home \o <<"/", ".claude", "/", "projects">> >>

\* the candidates: projects_dirs when it is not empty, else the default
\* directories that exist, else projects_dir
CandidatePaths(c, d, fl, sl) ==
    IF Truthy(c["projects_dirs"]) THEN Get(c["projects_dirs"])
    ELSE LET found == SelectSeq(default_paths,
                         LAMBDA path : exists(d, fl, sl, path) /\ is_dir(d, sl, path))
         IN  IF found = <<>> /\ c["projects_dir"] # None
             THEN <<Get(c["projects_dir"])>>
             ELSE found

\* a loop that tells paths apart by the string given, not the resolved one
RECURSIVE DedupeUnresolved(_, _, _, _, _, _)
DedupeUnresolved(paths, seen, valid, d, fl, sl) ==
    IF paths = <<>> THEN valid
    ELSE LET path == Head(paths) IN
         IF path \notin seen /\ exists(d, fl, sl, path) /\ is_dir(d, sl, path)
         THEN DedupeUnresolved(Tail(paths), seen \cup {path},
                               Append(valid, path), d, fl, sl)
         ELSE DedupeUnresolved(Tail(paths), seen, valid, d, fl, sl)

\* the loop over paths: seen holds the resolved paths kept so far
RECURSIVE Dedupe(_, _, _, _, _, _)
Dedupe(paths, seen, valid, d, fl, sl) ==
    IF paths = <<>> THEN valid
    ELSE LET path == Head(paths)
             path_str == resolve(sl, path)
         IN  IF path_str \notin seen /\ exists(d, fl, sl, path) /\ is_dir(d, sl, path)
             THEN Dedupe(Tail(paths), seen \cup {path_str},
                         Append(valid, path), d, fl, sl)
             ELSE Dedupe(Tail(paths), seen, valid, d, fl, sl)

get_claude_paths(c, d, fl, sl) ==
    Dedupe(CandidatePaths(c, d, fl, sl), {}, <<>>, d, fl, sl)

\* config.get_claude_paths() on the object held
GetClaudePaths ==
    /\ op.name \in {"init", "load"} /\ cfg.status = "ok"
    /\ valid_paths' = get_claude_paths(cfg.c, dirs, files, symlinks)
    /\ op' = Op("paths", op.name, fs, cfg.c, None)
    /\ UNCHANGED <<env, fs, dirs, files, symlinks, given_file, cfg, value, parsed,
                 last_loaded, read_doc>>

MaxDirs == 3

DirA == <<"/", "a">>

DirB == <<"/", "b">>

LinkL == <<"/", "l">>

\* the paths tried as entries of projects_dirs: two absolute ones, a link
\* and a relative path that resolves to the first
PathChoices == {DirA, DirB, LinkL, <<"a">>}

RECURSIVE PathLists(_)
PathLists(n) ==
    IF n = 0 THEN {<<>>}
    ELSE LET shorter == PathLists(n - 1) IN
         shorter \cup {Append(l, path) : l \in shorter, path \in PathChoices}

\* an object with each list of directories and each single directory, on a
\* disk where each default directory and /a is a directory or missing, /b
\* is a directory, a file or missing and /l is a link or missing
InitPaths ==
    /\ given_file = None
    /\ env = NoEnv
    /\ fs = NoFiles
    /\ \E some \in SUBSET {default_paths[1], default_paths[2], DirA},
          b \in {"dir", "file", "missing"} :
            /\ dirs = {get_cache_dir} \cup some \cup (IF b = "dir" THEN {DirB} ELSE {})
            /\ files = IF b = "file" THEN {DirB} ELSE {}
    /\ \E target \in {DirA, DirB} :
            symlinks \in {<<>>, [path \in {LinkL} |-> target]}
    /\ op = Op("init", "init", fs, Defaults, None)
    /\ \E list \in {None} \cup {Some(l) : l \in PathLists(MaxDirs)},
          single \in {default_paths[2], DirA, LinkL} :
            cfg = [status |-> "ok", exc |-> "",
                   c |-> [Defaults EXCEPT !["projects_dirs"] = list,
                                          !["projects_dir"] = Some(single)]]
    /\ valid_paths = <<>>
    /\ value = <<>>
    /\ parsed = None
    /\ last_loaded = None
    /\ read_doc = None

NextPaths == GetClaudePaths

SpecPaths == InitPaths /\ [][NextPaths]_vars

(***************************************************************************)
(* The monitored directories                                               *)
(***************************************************************************)
\* the path leads to a directory on the disk
IsDirectory(path) == resolve(symlinks, path) \in dirs

\* the default directories that exist, in their fixed order
ExistingDefaults == SelectSeq(default_paths, IsDirectory)

\* the candidates of the object held: projects_dirs when it is not empty,
\* else the default directories that exist, else the single projects_dir
Candidates ==
    IF cfg.c["projects_dirs"] \notin {None, Some(<<>>)}
    THEN Get(cfg.c["projects_dirs"])
    ELSE IF ExistingDefaults # <<>> THEN ExistingDefaults
    ELSE <<Get(cfg.c["projects_dir"])>>

\* the positions kept: the candidate is a directory and no earlier
\* candidate that is a directory has the same resolved path
KeptPositions ==
    {i \in DOMAIN Candidates :
        /\ IsDirectory(Candidates[i])
        /\ \A j \in 1..(i - 1) :
            IsDirectory(Candidates[j]) =>
                resolve(symlinks, Candidates[j]) # resolve(symlinks, Candidates[i])}

\* the candidates at the kept positions, in their order
KeptInOrder ==
    [n \in 1..Cardinality(KeptPositions) |->
        Candidates[CHOOSE i \in KeptPositions :
                      Cardinality({j \in KeptPositions : j < i}) = n - 1]]

\* C8: get_claude_paths returns the candidates that are directories, each
\* at its first occurrence by resolved path and in the candidates' order;
\* so no resolved path comes twice, no path that is not a directory comes,
\* and with nothing to keep the result is the empty list.
C8_ClaudePathsExact ==
    op.name = "paths" =>
        /\ valid_paths = KeptInOrder
        /\ \A i \in DOMAIN valid_paths : IsDirectory(valid_paths[i])
        /\ \A i, j \in DOMAIN valid_paths :
            i # j => resolve(symlinks, valid_paths[i]) # resolve(symlinks, valid_paths[j])
        /\ (\A i \in DOMAIN Candidates : ~IsDirectory(Candidates[i]))
                => valid_paths = <<>>

\* a list with two names of one directory and a path that is no directory:
\* the first name is returned, the second and the missing path are not
C8_Witness ==
    /\ op.name = "paths"
    /\ \E i, j, k \in DOMAIN Candidates :
        /\ i < j
        /\ Candidates[i] # Candidates[j]
        /\ IsDirectory(Candidates[i])
        /\ resolve(symlinks, Candidates[i]) = resolve(symlinks, Candidates[j])
        /\ ~IsDirectory(Candidates[k])
    /\ Len(valid_paths) = 1

\* no projects_dirs and no default directory: the single projects_dir is
\* the candidate, and it is missing, so the result is empty
C8_EmptyResult ==
    /\ op.name = "paths"
    /\ cfg.c["projects_dirs"] = None
    /\ ExistingDefaults = <<>>
    /\ ~IsDirectory(Get(cfg.c["projects_dir"]))
    /\ valid_paths = <<>>

(***************************************************************************)
(* Path expansion                                                          *)
(***************************************************************************)
MaxPathLen == 3

\* the symbols of a path text: the home alias, the separator, a name and
\* references to the two variables
PathAlphabet == {"~", "/", "a", "$S", "$U"}

\* the values tried for the two variables: a plain name, a reference to the
\* other variable and the home alias
InitExpand ==
    /\ given_file = None
    /\ \E s \in {None, Some(<<"sub">>)},
          u \in {None, Some(<<"d">>), Some(<<"$S">>), Some(<<"~">>)} :
            env = [NoEnv EXCEPT !["S"] = s, !["U"] = u]
    /\ fs = NoFiles
    /\ InitCommon
    /\ value \in Strings(PathAlphabet, MaxPathLen)

\* expand_path(value)
ExpandPath ==
    /\ op.name = "init"
    /\ parsed' = Some(expand_path(env, value))
    /\ op' = Op("expand", op.name, fs, cfg.c, None)
    /\ UNCHANGED <<env, fs, dirs, files, symlinks, given_file, cfg, valid_paths, value,
                 last_loaded, read_doc>>

\* expand_path(path) on the path the first call returned
ExpandAgain ==
    /\ op.name = "expand" /\ op.prev = "init"
    /\ value' = Get(parsed)
    /\ parsed' = Some(expand_path(env, Get(parsed)))
    /\ op' = Op("expand", op.name, fs, cfg.c, None)
    /\ UNCHANGED <<env, fs, dirs, files, symlinks, given_file, cfg, valid_paths,
                 last_loaded, read_doc>>

NextExpand == ExpandPath \/ ExpandAgain

SpecExpand == InitExpand /\ [][NextExpand]_vars

\* the text starts with the home alias
HasLeadingAlias(s) == s # <<>> /\ s[1] = "~" /\ (Len(s) = 1 \/ s[2] = "/")

\* every variable the text refers to is set, and "~" comes first or not at all
Expandable(s) ==
    /\ \A i \in DOMAIN s : IsRef(s[i]) => env[RefName(s[i])] # None
    /\ \A i \in DOMAIN s : s[i] = "~" => i = 1 /\ HasLeadingAlias(s)

FirstExpansion == op.name = "expand" /\ op.prev = "init"

SecondExpansion == op.name = "expand" /\ op.prev = "expand"

\* C11: expand_path is idempotent (the path of a second call on the result
\* is the result); a text with no "~" and no reference to a variable comes
\* back as the same path; a text with a leading "~" and references to set
\* variables comes back with neither "~" nor a reference left.
C11_ExpandIdempotentAndClean ==
    /\ SecondExpansion => parsed = Some(value)
    /\ (FirstExpansion /\ ~HasHomeAlias(value) /\ ~HasVarReference(value))
            => parsed = Some(PathOf(value))
    /\ (FirstExpansion /\ HasLeadingAlias(value) /\ HasVarReference(value)
                        /\ Expandable(value))
            => ~HasHomeAlias(Get(parsed)) /\ ~HasVarReference(Get(parsed))

\* no variable holds a "~" or a reference to a variable
PlainValues ==
    \A v \in PathVars :
        env[v] # None => ~HasHomeAlias(Get(env[v])) /\ ~HasVarReference(Get(env[v]))

\* the same when the values of the variables are plain names
C11_HoldsForPlainValues == PlainValues => C11_ExpandIdempotentAndClean

(***************************************************************************)
(* update_config_token_limit                                               *)
(***************************************************************************)
\* config.token_limit = token_limit
SetTokenLimit(config, token_limit) ==
    [config EXCEPT !["token_limit"] = Some(token_limit)]

\* the token limits written
TokenLimits == {7, 1000}

\* update_config_token_limit(config_file, token_limit) after a load: when
\* the file exists it is loaded, the object's token_limit is assigned and
\* the object is saved; an exception of exists() or of load_config leaves
\* the function before the assignment
UpdateConfigTokenLimit ==
    /\ op.name = "load"
    /\ \E token_limit \in TokenLimits :
        IF ExistsRaises(fs, TargetFile) \/ ~Exists(fs, TargetFile)
        THEN UNCHANGED <<fs, dirs, last_loaded>>
        ELSE \E r \in {load_config(Some(TargetFile), fs, env)} :
                IF r.status # "ok"
                THEN fs' = r.fs /\ UNCHANGED <<dirs, last_loaded>>
                ELSE \E config \in {SetTokenLimit(r.c, token_limit)} :
                        /\ fs' = [r.fs EXCEPT ![TargetFile] =
                                                Doc("map", Serialized(config))]
                        /\ dirs' = dirs \cup r.c["cache_dir"]
                                        \cup ensure_xdg_directories
                                        \cup {ParentDir(TargetFile)}
                        /\ last_loaded' = Some([made |-> r.c, now |-> config])
    /\ op' = Op("update", op.name, fs, cfg.c, None)
    /\ UNCHANGED <<env, files, symlinks, given_file, cfg, valid_paths, value, parsed,
                   read_doc>>

\* a named file that holds a mapping, is missing or cannot be read as one,
\* under each environment with at most one variable fewer than MaxEnvVars
InitUpdate ==
    /\ given_file = Some("p")
    /\ env \in Envs(MaxEnvVars - 1)
    /\ \/ \E m \in FileMaps : fs = [NoFiles EXCEPT !["p"] = Doc("map", m)]
       \/ \E kind \in DocKinds \ {"map"} :
            fs = [NoFiles EXCEPT !["p"] = Doc(kind, EmptyMap)]
    /\ InitCommon
    /\ value = <<>>

NextUpdate == LoadConfig \/ GetClaudePaths \/ SaveConfig \/ UpdateConfigTokenLimit

SpecUpdate == InitUpdate /\ [][NextUpdate]_vars

\* C12: an object load_config has built keeps every field it was built
\* with, whichever of get_claude_paths, save_config and
\* update_config_token_limit runs afterwards.
C12_LoadedObjectNeverMutated ==
    last_loaded # None => Get(last_loaded).now = Get(last_loaded).made

\* the same for the object the caller holds, and for every field but
\* token_limit of the object update_config_token_limit loads
C12_OnlyTokenLimitAssigned ==
    /\ (op.name \in {"paths", "save", "update"} /\ op.prev = "load")
            => cfg.c = op.c0
    /\ last_loaded # None =>
        \A k \in Keys \ {"token_limit"} :
            Get(last_loaded).now[k] = Get(last_loaded).made[k]

(***************************************************************************)
(* save_config step by step, beside a reader                               *)
(***************************************************************************)
\* the keys in the order yaml.dump writes them (sort_keys=False)
SerializedOrder ==
    <<"projects_dir", "polling_interval", "timezone", "token_limit", "cache_dir",
      "show_progress_bars", "show_active_sessions", "update_in_place",
      "refresh_interval", "time_format", "project_name_prefixes", "display_mode",
      "show_pricing", "discord_webhook_url", "slack_webhook_url",
      "notify_on_block_completion", "cooldown_minutes", "projects_dirs">>

\* the first n keys of a mapping in that order
Written(m, n) ==
    LET order == SelectSeq(SerializedOrder, LAMBDA k : k \in DOMAIN m) IN
    [k \in {order[i] : i \in 1..n} |-> m[k]]

\* save_config up to open(config_file, "w"): the directories are made and
\* the file is created or cut to no content
SaveOpen ==
    /\ op.name = "load" /\ op.prev # "save"
    /\ cfg.status = "ok"
    /\ fs' = [fs EXCEPT ![TargetFile] = Doc("empty", EmptyMap)]
    /\ dirs' = dirs \cup ensure_xdg_directories \cup {ParentDir(TargetFile)}
    /\ op' = Op("open", op.name, fs, cfg.c, None)
    /\ UNCHANGED <<env, files, symlinks, given_file, cfg, valid_paths, value,
                   parsed, last_loaded, read_doc>>

\* yaml.dump: a part of the document reaches the file before the rest
SaveFlush ==
    /\ op.name \in {"open", "flush"}
    /\ \E n \in 1..(Cardinality(DOMAIN Serialized(cfg.c)) - 1) :
        /\ n > Cardinality(DOMAIN fs[TargetFile].m)
        /\ fs' = [fs EXCEPT ![TargetFile] = Doc("map", Written(Serialized(cfg.c), n))]
    /\ op' = Op("flush", op.name, op.fs0, cfg.c, None)
    /\ UNCHANGED <<env, dirs, files, symlinks, given_file, cfg, valid_paths, value,
                   parsed, last_loaded, read_doc>>

\* the end of the with block: the whole document is in the file
SaveClose ==
    /\ op.name \in {"open", "flush"}
    /\ fs' = [fs EXCEPT ![TargetFile] = Doc("map", Serialized(cfg.c))]
    /\ op' = Op("save", op.name, op.fs0, cfg.c, None)
    /\ UNCHANGED <<env, dirs, files, symlinks, given_file, cfg, valid_paths, value,
                   parsed, last_loaded, read_doc>>

\* another process reads the file
ReadConfigFile ==
    /\ read_doc # Some(fs[TargetFile])
    /\ read_doc' = Some(fs[TargetFile])
    /\ UNCHANGED <<env, fs, dirs, files, symlinks, given_file, op, cfg,
                   valid_paths, value, parsed, last_loaded>>

\* a named file that holds a mapping or is missing
InitSave ==
    /\ given_file = Some("p")
    /\ env = NoEnv
    /\ \/ \E m \in FileMaps : fs = [NoFiles EXCEPT !["p"] = Doc("map", m)]
       \/ fs = NoFiles
    /\ InitCommon
    /\ value = <<>>

NextSave == LoadConfig \/ SaveOpen \/ SaveFlush \/ SaveClose \/ ReadConfigFile

SpecSave == InitSave /\ [][NextSave]_vars

\* the save has started
Saving == op.name \in {"open", "flush", "save"}

\* the document is the whole previous content of the file (or its absence)
\* or the whole document save_config writes
WholeDocument(doc) == doc \in {op.fs0[TargetFile], Doc("map", Serialized(cfg.c))}

\* C13: at every step of save_config the file holds the whole previous
\* content (or is absent) or the whole new content, and so does what
\* another process reads there: never an empty or a truncated document.
C13_NoPartialWrite ==
    Saving =>
        /\ WholeDocument(fs[TargetFile])
        /\ read_doc # None => WholeDocument(Get(read_doc))

(***************************************************************************)
(* What update_config_token_limit leaves of the file                       *)
(***************************************************************************)
\* a load that follows update_config_token_limit, which followed a load
\* under the same environment
ReloadedAfterUpdate == op.name = "load" /\ op.prev = "update" /\ cfg.status = "ok"

\* C14: after update_config_token_limit(file, n) load_config resolves every
\* field but token_limit to the value it resolved before the update, the
\* fields save_config does not write included.
C14_UpdateChangesOnlyTokenLimit ==
    ReloadedAfterUpdate =>
        \A k \in Keys \ {"token_limit"} : cfg.c[k] = op.c0[k]

\* the same for the fields save_config writes that are not paths, and the
\* token limit is the one written
C14_SerializedFieldsKept ==
    ReloadedAfterUpdate =>
        /\ \A k \in SerializedKeys \ (PathKeys \cup {"token_limit"}) :
                cfg.c[k] = op.c0[k]
        /\ (op.fs0[TargetFile].kind = "map" /\ env["PAR_CC_USAGE_TOKEN_LIMIT"] = None)
                => cfg.c["token_limit"] = Lookup(op.fs0[TargetFile].m, "token_limit")
=============================================================================
